---- MODULE Spec2Model ----
(***************************************************************************)
(* Model of the credential relay of token-server/src/tokenServer.ts: an    *)
(* HTTP listener on port 3001 that dispatches on the first path segment,   *)
(* shells out synchronously to the identity CLI (`az ...`) and relays its  *)
(* output, deriving cache headers for /token; of the self-heal driver      *)
(* e2e-test-generator/shel_v2.sh; and of the load of the configuration     *)
(* module playwright.config.ts, which lists the relay as a web server.     *)
(* Each program has its own specification: Spec and SpecQueue the relay,   *)
(* SpecHeal the driver, SpecConfig the configuration.                      *)
(*                                                                         *)
(* Texts (urls, bodies, CLI output) are sequences of lexemes.  A lexeme is *)
(* a record [s, d]: s is the piece of text, d is <<>> except for a quoted  *)
(* date-time string, whose calendar fields d carries.  Route names are one *)
(* lexeme each, every other url character is a lexeme of its own.          *)
(***************************************************************************)
EXTENDS Integers, Sequences, FiniteSets, TLC

(***************************************************************************)
(* Bounds of the model.                                                    *)
(***************************************************************************)
MaxArgLen == 3

(***************************************************************************)
(* Texts.                                                                  *)
(***************************************************************************)
L(s) == [s |-> s, d |-> <<>>]

T(strs) == [i \in DOMAIN strs |-> L(strs[i])]

\* the JavaScript value undefined, where a text is expected
undefined == <<L("undefined-value")>>

\* a falsy string: undefined or the empty string
\* a test that holds of undefined alone, not of the empty string
Falsy_undefinedOnly(text) == text = undefined

Falsy(text) == text = undefined \/ text = <<>>

(***************************************************************************)
(* String.prototype.split("/"): the pieces between the separators; a text  *)
(* without separator is one piece.                                         *)
(***************************************************************************)
RECURSIVE SplitFrom(_, _, _)
SplitFrom(text, i, piece) ==
  IF i > Len(text) THEN <<piece>>
  ELSE IF text[i] = L("/") THEN <<piece>> \o SplitFrom(text, i + 1, <<>>)
  ELSE SplitFrom(text, i + 1, Append(piece, text[i]))

split(text) == SplitFrom(text, 1, <<>>)

\* urlArr[k] of JavaScript (0-based index k): undefined past the end
At(arr, k) == IF k + 1 \in DOMAIN arr THEN arr[k + 1] ELSE undefined

(***************************************************************************)
(* parseInt(s, 10): optional sign, then the longest run of decimal digits; *)
(* NaN when there is no digit; whatever follows the digits is ignored.     *)
(* parseInt(undefined) is parseInt("undefined"), NaN.                      *)
(***************************************************************************)
Num(v) == [nan |-> FALSE, v |-> v]

NaN == [nan |-> TRUE, v |-> 0]

Digits == {"0", "1", "2", "3", "4", "5", "6", "7", "8", "9"}

DigitVal(c) ==
  CASE c = "0" -> 0 [] c = "1" -> 1 [] c = "2" -> 2 [] c = "3" -> 3
    [] c = "4" -> 4 [] c = "5" -> 5 [] c = "6" -> 6 [] c = "7" -> 7
    [] c = "8" -> 8 [] c = "9" -> 9

IsDigit(lex) == lex.s \in Digits

RECURSIVE DigitRun(_, _, _)
DigitRun(text, i, acc) ==
  IF i \in DOMAIN text /\ IsDigit(text[i])
  THEN DigitRun(text, i + 1, acc * 10 + DigitVal(text[i].s))
  ELSE acc

parseInt(text) ==
  IF text = undefined THEN NaN
  ELSE LET signed == text # <<>> /\ text[1].s \in {"-", "+"}
           first  == IF signed THEN 2 ELSE 1
           mag    == DigitRun(text, first, 0)
       IN  IF ~(first \in DOMAIN text /\ IsDigit(text[first])) THEN NaN
           ELSE IF signed /\ text[1].s = "-" THEN Num(0 - mag) ELSE Num(mag)

\* `isNaN(x) ? 404 : x`: zero is kept
OrElse_keepsZero(n, dflt) == IF n.nan THEN dflt ELSE n.v

\* `x || 404` on a number: NaN, +0 and -0 are falsy
OrElse(n, dflt) == IF n.nan \/ n.v = 0 THEN dflt ELSE n.v

(***************************************************************************)
(* Dates.  A time value is the ECMAScript time value (milliseconds since   *)
(* the epoch, or NaN), held as whole seconds and the milliseconds within   *)
(* the second so that it fits the checker's integers.                      *)
(***************************************************************************)
InvalidDate == [nan |-> TRUE, sec |-> 0, ms |-> 0]

TimeValue(sec, ms) == [nan |-> FALSE, sec |-> sec, ms |-> ms]

\* a time value from a count of milliseconds
FromMs(n) == TimeValue(n \div 1000, n % 1000)

\* t - k for a number of milliseconds k
MinusMs(t, k) ==
  IF t.nan THEN InvalidDate
  ELSE LET ms == t.ms - (k % 1000)
       IN  TimeValue(t.sec - (k \div 1000) + (ms \div 1000), ms % 1000)

SecPerDay == 24 * 60 * 60

\* ECMAScript DayFromYear, DaysInYear, MakeDay
DayFromYear(y) ==
  365 * (y - 1970) + ((y - 1969) \div 4) - ((y - 1901) \div 100)
    + ((y - 1601) \div 400)

InLeapYear(y) == (y % 4 = 0 /\ y % 100 # 0) \/ y % 400 = 0

MonthLen(y, m) ==
  IF m = 2 THEN (IF InLeapYear(y) THEN 29 ELSE 28)
  ELSE IF m \in {4, 6, 9, 11} THEN 30 ELSE 31

RECURSIVE DaysBeforeMonth(_, _)
DaysBeforeMonth(y, m) ==
  IF m = 1 THEN 0 ELSE DaysBeforeMonth(y, m - 1) + MonthLen(y, m - 1)

MakeDay(y, m, d) == DayFromYear(y) + DaysBeforeMonth(y, m) + (d - 1)

(***************************************************************************)
(* new Date(string): the fields <<year, month, day, hour, minute, second,  *)
(* millisecond, offset>> of a date-time string denote the instant whose    *)
(* wall-clock time at `offset` minutes east of UTC they are (the offset    *)
(* written in the string, or the host's zone when the string has none);    *)
(* any other string is an Invalid Date.                                    *)
(***************************************************************************)
DateFromFields(f) ==
  TimeValue(MakeDay(f[1], f[2], f[3]) * SecPerDay
              + f[4] * 3600 + f[5] * 60 + f[6] - f[8] * 60, f[7])

YearRange == 1900 .. 2100

YearFromDay(day) ==
  CHOOSE y \in YearRange : DayFromYear(y) <= day /\ day < DayFromYear(y + 1)

MonthFromDay(y, dayInYear) ==
  CHOOSE m \in 1 .. 12 :
    /\ DaysBeforeMonth(y, m) <= dayInYear
    /\ dayInYear < DaysBeforeMonth(y, m) + MonthLen(y, m)

DayNames == <<"Sun", "Mon", "Tue", "Wed", "Thu", "Fri", "Sat">>

MonthNames ==
  <<"Jan", "Feb", "Mar", "Apr", "May", "Jun",
    "Jul", "Aug", "Sep", "Oct", "Nov", "Dec">>

Pad2(n) == IF n < 10 THEN "0" \o ToString(n) ELSE ToString(n)

\* the HTTP date "Wed, 31 Dec 1969 23:57:00 GMT"
HttpDate(wd, d, m, y, hh, mm, ss) ==
  DayNames[wd + 1] \o ", " \o Pad2(d) \o " " \o MonthNames[m] \o " "
    \o ToString(y) \o " " \o Pad2(hh) \o ":" \o Pad2(mm) \o ":" \o Pad2(ss)
    \o " GMT"

\* Date.prototype.toUTCString(): the milliseconds are dropped
toUTCString(t) ==
  IF t.nan THEN "Invalid Date"
  ELSE LET day   == t.sec \div SecPerDay
           inDay == t.sec % SecPerDay
           y     == YearFromDay(day)
           diy   == day - DayFromYear(y)
           m     == MonthFromDay(y, diy)
       IN  HttpDate((day + 4) % 7, diy - DaysBeforeMonth(y, m) + 1, m, y,
                    inDay \div 3600, (inDay % 3600) \div 60, inDay % 60)

(***************************************************************************)
(* JSON.parse on a text whose lexemes are JSON tokens: the punctuation of  *)
(* objects, quoted strings, numbers and the literals.  The result is the   *)
(* parsed value, or the SyntaxError JSON.parse throws.                     *)
(***************************************************************************)
JsonStringTexts ==
  {"\"expiresOn\"", "\"accessToken\"", "\"\"", "\"not a date\"", "\"eyJ0eXAi\"",
   "\"stats\"", "\"errors\""}

JsonNumberTexts == {"0", "1700000000"}

IsJsonString(lex) == lex.d # <<>> \/ lex.s \in JsonStringTexts

PrimitiveKind(lex) ==
  IF IsJsonString(lex) THEN "string"
  ELSE IF lex.s \in JsonNumberTexts THEN "number"
  ELSE IF lex.s \in {"null", "true", "false"} THEN lex.s
  ELSE "none"

JsValue(t, lex, keys, vals) == [t |-> t, lex |-> lex, keys |-> keys, vals |-> vals]

JsUndefined == JsValue("undefined", L(""), <<>>, <<>>)

ParseFail == [ok |-> FALSE, next |-> 0, val |-> JsUndefined]

ParseOk(next, val) == [ok |-> TRUE, next |-> next, val |-> val]

RECURSIVE ParseValue(_, _), ParseMembers(_, _, _, _)
ParseValue(text, i) ==
  IF i \notin DOMAIN text THEN ParseFail
  ELSE IF PrimitiveKind(text[i]) # "none"
    THEN ParseOk(i + 1, JsValue(PrimitiveKind(text[i]), text[i], <<>>, <<>>))
  ELSE IF text[i] # L("{") THEN ParseFail
  ELSE IF i + 1 \in DOMAIN text /\ text[i + 1] = L("}")
    THEN ParseOk(i + 2, JsValue("object", text[i], <<>>, <<>>))
  ELSE ParseMembers(text, i + 1, <<>>, <<>>)

ParseMembers(text, i, keys, vals) ==
  IF ~(i + 1 \in DOMAIN text /\ IsJsonString(text[i]) /\ text[i + 1] = L(":"))
    THEN ParseFail
  ELSE LET v  == ParseValue(text, i + 2)
           ks == Append(keys, text[i])
           vs == Append(vals, v.val)
       IN  IF ~v.ok \/ v.next \notin DOMAIN text THEN ParseFail
           ELSE IF text[v.next] = L("}")
             THEN ParseOk(v.next + 1, JsValue("object", L("{"), ks, vs))
           ELSE IF text[v.next] = L(",")
             THEN ParseMembers(text, v.next + 1, ks, vs)
           ELSE ParseFail

JSONparse(text) ==
  LET r == ParseValue(text, 1)
  IN  IF r.ok /\ r.next = Len(text) + 1
      THEN [throws |-> FALSE, val |-> r.val]
      ELSE [throws |-> TRUE, val |-> JsUndefined]

\* obj.name: the last member of that name; undefined on anything else
GetProperty(val, name) ==
  LET hits == {i \in DOMAIN val.keys : val.keys[i] = L(name)}
  IN  IF hits = {} THEN JsUndefined
      ELSE val.vals[CHOOSE i \in hits : \A j \in hits : j <= i]

\* ToBoolean
Truthy(val) ==
  CASE val.t \in {"undefined", "null", "false"} -> FALSE
    [] val.t = "string" -> val.lex # L("\"\"")
    [] val.t = "number" -> val.lex # L("0")
    [] OTHER -> TRUE

NumberValue(lex) == IF lex.s = "0" THEN 0 ELSE 1700000000

\* new Date(value)
NewDate(val) ==
  CASE val.t = "string" ->
         IF val.lex.d # <<>> THEN DateFromFields(val.lex.d) ELSE InvalidDate
    [] val.t = "number" -> FromMs(NumberValue(val.lex))
    [] val.t = "true"   -> FromMs(1)
    [] val.t \in {"false", "null"} -> FromMs(0)
    [] OTHER -> InvalidDate

(***************************************************************************)
(* getCacheHeaders, tokenServer.ts lines 19-37.                            *)
(***************************************************************************)
NoHeaders == <<>>

validUntilBeforeExpirySec == 5 * 60

\* getCacheHeaders subtracting the margin as milliseconds, not seconds
getCacheHeaders_marginInMilliseconds(tokenJson) ==
  LET parsed == IF Falsy(tokenJson)
                THEN [throws |-> FALSE, val |-> JsUndefined]
                ELSE JSONparse(tokenJson)
      auth == parsed.val
  IN  IF parsed.throws THEN NoHeaders
      ELSE IF Truthy(auth) /\ Truthy(GetProperty(auth, "\"expiresOn\""))
      THEN LET expiresOn    == NewDate(GetProperty(auth, "\"expiresOn\""))
               cacheExpires == MinusMs(expiresOn, validUntilBeforeExpirySec)
           IN  ("Cache-Control" :> "private")
                 @@ ("Expires" :> toUTCString(cacheExpires))
      ELSE NoHeaders

\* getCacheHeaders testing `auth` alone, not `auth.expiresOn`
getCacheHeaders_withoutFieldCheck(tokenJson) ==
  LET parsed == IF Falsy(tokenJson)
                THEN [throws |-> FALSE, val |-> JsUndefined]
                ELSE JSONparse(tokenJson)
      auth == parsed.val
  IN  IF parsed.throws THEN NoHeaders
      ELSE IF Truthy(auth)
      THEN LET expiresOn    == NewDate(GetProperty(auth, "\"expiresOn\""))
               cacheExpires == MinusMs(expiresOn, validUntilBeforeExpirySec * 1000)
           IN  ("Cache-Control" :> "private")
                 @@ ("Expires" :> toUTCString(cacheExpires))
      ELSE NoHeaders

getCacheHeaders(tokenJson) ==
  LET parsed == IF Falsy(tokenJson)
                THEN [throws |-> FALSE, val |-> JsUndefined]
                ELSE JSONparse(tokenJson)
      auth == parsed.val
  IN  IF parsed.throws THEN NoHeaders
      ELSE IF Truthy(auth) /\ Truthy(GetProperty(auth, "\"expiresOn\""))
      THEN LET expiresOn    == NewDate(GetProperty(auth, "\"expiresOn\""))
               cacheExpires == MinusMs(expiresOn, validUntilBeforeExpirySec * 1000)
           IN  ("Cache-Control" :> "private")
                 @@ ("Expires" :> toUTCString(cacheExpires))
      ELSE NoHeaders

(***************************************************************************)
(* The identity CLI.  A run is how one `az ...` child process ends: exited *)
(* with a status, or killed by a signal (status null), or not started at   *)
(* all because spawning it failed (status and signal null); stdout is the  *)
(* bytes it printed, fewer than the maxBuffer of execSync.  A lexeme of a text stands for the bytes of its UTF-8       *)
(* encoding as well, except the two lexemes below.                         *)
(***************************************************************************)
\* a byte that is no UTF-8 sequence (0xE9 is e-acute in Latin-1)
InvalidByte == L("0xE9")

\* the character U+FFFD a decoder puts for an invalid sequence
ReplacementCharacter == L("U+FFFD")

\* the three bytes of U+FFFD in UTF-8
ReplacementBytes == L("0xEF 0xBF 0xBD")

\* the two bytes of U+00E9 in UTF-8
EAcuteBytes == L("0xC3 0xA9")

\* decoding the bytes as Latin-1: every byte is a character
Utf8Decode_latin1(bytes) ==
  [i \in DOMAIN bytes |-> IF bytes[i] = InvalidByte THEN L("U+00E9") ELSE bytes[i]]

\* execSync(..., { encoding: "utf-8" }): the captured bytes as a string
Utf8Decode(bytes) ==
  [i \in DOMAIN bytes |->
     IF bytes[i] = InvalidByte THEN ReplacementCharacter ELSE bytes[i]]

\* the bytes response.write and response.end send for a string
Utf8Encode(text) ==
  [i \in DOMAIN text |->
     IF text[i] = ReplacementCharacter THEN ReplacementBytes
     ELSE IF text[i] = L("U+00E9") THEN EAcuteBytes
     ELSE text[i]]

\* the run as the error of execSync reports it: stdout as a string
Decoded(run) == [run EXCEPT !.stdout = Utf8Decode(run.stdout)]

Exited(status, stdout) ==
  [error |-> "", signal |-> "", status |-> status, stdout |-> stdout]

Killed(signal, stdout) ==
  [error |-> "", signal |-> signal, status |-> 0, stdout |-> stdout]

\* spawnSync failed with the system error `code`
SpawnFailed(code) ==
  [error |-> code, signal |-> "", status |-> 0, stdout |-> <<>>]

\* no child process ran
NoRun == [error |-> "", signal |-> "none", status |-> 0, stdout |-> <<>>]

\* the status of the run is a number, not null
HasStatus(run) == run.error = "" /\ run.signal = ""

\* an error object: the error execSync throws carries the result of
\* spawnSync (status, signal, stdout, and `error` when spawning failed) as
\* own properties; a system error and an error of node's http carry a code
ExecSyncError(run) == [code |-> run.error, run |-> run]

\* after a failed spawn the error thrown is the `error` of the result, and
\* the result is assigned to it: err.error is err
IsCircular(err) == err.run.error # ""

NodeError(code) == [code |-> code, run |-> NoRun]

NoError == NodeError("none")

\* the result of a call: a value returned or an error thrown
Return(value) == [throws |-> FALSE, value |-> value, err |-> NoError]

Throw(err) == [throws |-> TRUE, value |-> undefined, err |-> err]

\* JSON string encoding of a text, lexeme by lexeme
JsonString(text) ==
  <<L("\"")>> \o [i \in DOMAIN text |-> [s |-> "\\" \o text[i].s, d |-> text[i].d]]
    \o <<L("\"")>>

\* JSON.stringify(err): the own enumerable properties of the error; it
\* throws a TypeError for a circular one
JSONstringifyThrows(err) == IsCircular(err)

JSONstringify(err) ==
  IF err.code # ""
  THEN <<L("{"), L("\"code\""), L(":"), L("\"" \o err.code \o "\""), L("}")>>
  ELSE <<L("{"), L("\"status\""), L(":"),
         L(IF HasStatus(err.run) THEN ToString(err.run.status) ELSE "null"),
         L(","), L("\"signal\""), L(":"),
         L(IF err.run.signal = "" THEN "null" ELSE "\"" \o err.run.signal \o "\""),
         L(","), L("\"stdout\""), L(":")>>
         \o JsonString(err.run.stdout) \o <<L("}")>>

\* err.status !== 1
StatusIsNot1(run) == ~HasStatus(run) \/ run.status # 1

\* execAz with a catch that rethrows every failure, exit status 1 included
execAz_rethrowsEveryFailure(cmd, run) ==
  IF HasStatus(run) /\ run.status = 0 THEN Return(Utf8Decode(run.stdout))
  ELSE Throw(ExecSyncError(Decoded(run)))

\* execAz with a catch that swallows every failure
execAz_swallowsEveryFailure(cmd, run) ==
  IF HasStatus(run) /\ run.status = 0 THEN Return(Utf8Decode(run.stdout))
  ELSE Return(undefined)

\* execAz returning what the CLI printed before it exited with status 1
execAz_returnsStdoutOnExitOne(cmd, run) ==
  IF HasStatus(run) /\ run.status = 0 THEN Return(Utf8Decode(run.stdout))
  ELSE IF StatusIsNot1(run) THEN Throw(ExecSyncError(Decoded(run)))
  ELSE Return(Utf8Decode(run.stdout))

(***************************************************************************)
(* execAz, tokenServer.ts lines 5-17: run is the outcome of                *)
(* execSync(`az ${cmd}`).                                                  *)
(***************************************************************************)
execSyncCommand(cmd) == "az " \o cmd

execAz(cmd, run) ==
  IF HasStatus(run) /\ run.status = 0 THEN Return(Utf8Decode(run.stdout))
  ELSE IF StatusIsNot1(run) THEN Throw(ExecSyncError(Decoded(run)))
  ELSE Return(undefined)

(***************************************************************************)
(* http.ServerResponse: heads counts the response heads written, ended the *)
(* calls of end(), body the bytes sent; status is 0 until a head is        *)
(* written.  writeHead throws a RangeError for a status outside 100..999   *)
(* and an error for a second head.                                         *)
(***************************************************************************)
NewResponse ==
  [heads |-> 0, status |-> 0, headers |-> NoHeaders, body |-> <<>>, ended |-> 0]

\* a 1xx, 204 or 304 response has no body: what is written to it is dropped
HasBody(code) == ~(code = 204 \/ code = 304 \/ (100 <= code /\ code <= 199))

writeHead(res, code, headers) ==
  IF res.heads > 0
    THEN [throws |-> TRUE, err |-> NodeError("ERR_HTTP_HEADERS_SENT"), res |-> res]
  ELSE IF code < 100 \/ code > 999
    THEN [throws |-> TRUE, err |-> NodeError("ERR_HTTP_INVALID_STATUS_CODE"), res |-> res]
  ELSE [throws |-> FALSE, err |-> NoError,
        res |-> [res EXCEPT !.heads = 1, !.status = code, !.headers = headers]]

write(res, chunk) ==
  IF HasBody(res.status) /\ chunk # undefined
  THEN [res EXCEPT !.body = res.body \o Utf8Encode(chunk)]
  ELSE res

end(res, chunk) == [write(res, chunk) EXCEPT !.ended = res.ended + 1]

(***************************************************************************)
(* The request handler, tokenServer.ts lines 40-86.                        *)
(***************************************************************************)
\* request.headers[name] || dflt
HeaderOr(request, name, dflt) ==
  IF name \in DOMAIN request.headers /\ request.headers[name] # ""
  THEN request.headers[name] ELSE dflt

\* lines 41-50
setResponse(request, res, code, content, headers) ==
  LET h == writeHead(res, code,
             headers
               @@ ("Content-Type" :> "text/plain")
               @@ ("Access-Control-Allow-Origin" :> HeaderOr(request, "origin", "self"))
               @@ ("Access-Control-Allow-Headers" :>
                     HeaderOr(request, "access-control-request-headers", "*")))
  IN  IF h.throws THEN h ELSE [h EXCEPT !.res = end(h.res, content)]

\* the branch of lines 52-78 a request takes: for the four CLI routes the
\* argument of execAz and whether cache headers are derived from its result
Branch(kind, cmd, cache) == [kind |-> kind, cmd |-> cmd, cache |-> cache]

\* the dispatch with the url test ahead of the method test
Dispatch_urlBeforeMethod(request) ==
  IF Falsy(request.url) THEN Branch("empty", "", FALSE)
  ELSE IF request.method = "OPTIONS" THEN Branch("options", "", FALSE)
  ELSE LET urlArr == split(request.url)
       IN  CASE At(urlArr, 1) = T(<<"token">>) ->
                  Branch("az", "account get-access-token -o json", TRUE)
             [] At(urlArr, 1) = T(<<"logout">>) -> Branch("az", "logout", FALSE)
             [] At(urlArr, 1) = T(<<"login">>) -> Branch("az", "login", FALSE)
             [] At(urlArr, 1) = T(<<"user">>) ->
                  Branch("az", "account show -o json", FALSE)
             [] At(urlArr, 1) = T(<<"httpcode">>) -> Branch("httpcode", "", FALSE)
             [] OTHER -> Branch("default", "", FALSE)

\* the dispatch with a route matched by the start of the first segment
Dispatch_matchesPrefix(request) ==
  IF request.method = "OPTIONS" THEN Branch("options", "", FALSE)
  ELSE IF Falsy(request.url) THEN Branch("empty", "", FALSE)
  ELSE LET urlArr == split(request.url)
           startsWith(name) ==
             At(urlArr, 1) # <<>> /\ At(urlArr, 1)[1] = L(name)
       IN  CASE startsWith("token") ->
                  Branch("az", "account get-access-token -o json", TRUE)
             [] startsWith("logout") -> Branch("az", "logout", FALSE)
             [] startsWith("login") -> Branch("az", "login", FALSE)
             [] startsWith("user") -> Branch("az", "account show -o json", FALSE)
             [] startsWith("httpcode") -> Branch("httpcode", "", FALSE)
             [] OTHER -> Branch("default", "", FALSE)

\* the dispatch with cache headers derived on every CLI route
Dispatch_cachesEveryCliRoute(request) ==
  IF request.method = "OPTIONS" THEN Branch("options", "", FALSE)
  ELSE IF Falsy(request.url) THEN Branch("empty", "", FALSE)
  ELSE LET urlArr == split(request.url)
       IN  CASE At(urlArr, 1) = T(<<"token">>) ->
                  Branch("az", "account get-access-token -o json", TRUE)
             [] At(urlArr, 1) = T(<<"logout">>) -> Branch("az", "logout", TRUE)
             [] At(urlArr, 1) = T(<<"login">>) -> Branch("az", "login", TRUE)
             [] At(urlArr, 1) = T(<<"user">>) ->
                  Branch("az", "account show -o json", TRUE)
             [] At(urlArr, 1) = T(<<"httpcode">>) -> Branch("httpcode", "", FALSE)
             [] OTHER -> Branch("default", "", FALSE)

\* the dispatch with a route matched against the whole path
Dispatch_matchesWholePath(request) ==
  IF request.method = "OPTIONS" THEN Branch("options", "", FALSE)
  ELSE IF Falsy(request.url) THEN Branch("empty", "", FALSE)
  ELSE LET path == Tail(request.url)
       IN  CASE path = T(<<"token">>) ->
                  Branch("az", "account get-access-token -o json", TRUE)
             [] path = T(<<"logout">>) -> Branch("az", "logout", FALSE)
             [] path = T(<<"login">>) -> Branch("az", "login", FALSE)
             [] path = T(<<"user">>) -> Branch("az", "account show -o json", FALSE)
             [] Len(path) >= 1 /\ path[1] = L("httpcode") ->
                  Branch("httpcode", "", FALSE)
             [] OTHER -> Branch("default", "", FALSE)

\* the dispatch without the test of the method
Dispatch_ignoresMethod(request) ==
  IF Falsy(request.url) THEN Branch("empty", "", FALSE)
  ELSE LET urlArr == split(request.url)
       IN  CASE At(urlArr, 1) = T(<<"token">>) ->
                  Branch("az", "account get-access-token -o json", TRUE)
             [] At(urlArr, 1) = T(<<"logout">>) -> Branch("az", "logout", FALSE)
             [] At(urlArr, 1) = T(<<"login">>) -> Branch("az", "login", FALSE)
             [] At(urlArr, 1) = T(<<"user">>) ->
                  Branch("az", "account show -o json", FALSE)
             [] At(urlArr, 1) = T(<<"httpcode">>) -> Branch("httpcode", "", FALSE)
             [] OTHER -> Branch("default", "", FALSE)

\* the dispatch with the second segment of the url passed on to the CLI
RECURSIVE TextString(_)
TextString(text) ==
  IF text = <<>> THEN "" ELSE text[1].s \o TextString(Tail(text))

Dispatch_passesSecondSegment(request) ==
  IF request.method = "OPTIONS" THEN Branch("options", "", FALSE)
  ELSE IF Falsy(request.url) THEN Branch("empty", "", FALSE)
  ELSE LET urlArr == split(request.url)
           arg    == IF At(urlArr, 2) = undefined THEN ""
                     ELSE " " \o TextString(At(urlArr, 2))
       IN  CASE At(urlArr, 1) = T(<<"token">>) ->
                  Branch("az", "account get-access-token -o json" \o arg, TRUE)
             [] At(urlArr, 1) = T(<<"logout">>) -> Branch("az", "logout" \o arg, FALSE)
             [] At(urlArr, 1) = T(<<"login">>) -> Branch("az", "login" \o arg, FALSE)
             [] At(urlArr, 1) = T(<<"user">>) ->
                  Branch("az", "account show -o json" \o arg, FALSE)
             [] At(urlArr, 1) = T(<<"httpcode">>) -> Branch("httpcode", "", FALSE)
             [] OTHER -> Branch("default", "", FALSE)

Dispatch(request) ==
  IF request.method = "OPTIONS" THEN Branch("options", "", FALSE)
  ELSE IF Falsy(request.url) THEN Branch("empty", "", FALSE)
  ELSE LET urlArr == split(request.url)
       IN  CASE At(urlArr, 1) = T(<<"token">>) ->
                  Branch("az", "account get-access-token -o json", TRUE)
             [] At(urlArr, 1) = T(<<"logout">>) -> Branch("az", "logout", FALSE)
             [] At(urlArr, 1) = T(<<"login">>) -> Branch("az", "login", FALSE)
             [] At(urlArr, 1) = T(<<"user">>) ->
                  Branch("az", "account show -o json", FALSE)
             [] At(urlArr, 1) = T(<<"httpcode">>) -> Branch("httpcode", "", FALSE)
             [] OTHER -> Branch("default", "", FALSE)

\* the try block, lines 52-79: run is the outcome of the child process the
\* branch launches, if it launches one
TryBlock(request, res, run) ==
  LET b == Dispatch(request)
  IN  CASE b.kind = "options" -> setResponse(request, res, 200, undefined, NoHeaders)
        [] b.kind = "empty" ->
             setResponse(request, res, 404, T(<<"Empty url">>), NoHeaders)
        [] b.kind = "az" ->
             LET out == execAz(b.cmd, run)
             IN  IF out.throws THEN [throws |-> TRUE, err |-> out.err, res |-> res]
                 ELSE setResponse(request, res, 200, out.value,
                        IF b.cache THEN getCacheHeaders(out.value) ELSE NoHeaders)
        [] b.kind = "httpcode" ->
             LET urlArr == split(request.url)
             IN  setResponse(request, res, OrElse(parseInt(At(urlArr, 2)), 404),
                             At(urlArr, 2), NoHeaders)
        [] OTHER ->
             setResponse(request, res, 404,
                         T(<<"Unsupported url ">>) \o request.url, NoHeaders)

\* the catch block, lines 80-85; a throw out of it rejects the handler's
\* promise, unhandled
CatchBlock(res, err) ==
  LET h == writeHead(res, 500, NoHeaders)
  IN  IF h.throws THEN [outcome |-> "unhandled", res |-> res]
      ELSE IF JSONstringifyThrows(err) THEN [outcome |-> "unhandled", res |-> h.res]
      ELSE [outcome |-> "caught",
            res |-> end(write(h.res, JSONstringify(err)), undefined)]

Handler(request, run) ==
  LET t == TryBlock(request, NewResponse, run)
  IN  IF t.throws THEN CatchBlock(t.res, t.err)
      ELSE [outcome |-> "returned", res |-> t.res]

(***************************************************************************)
(* The requests the model sends.                                           *)
(***************************************************************************)
\* the handler tells OPTIONS from every other method; GET stands for the
\* others (HEAD, whose response has no body on the wire, is not sent)
Methods == {"GET", "OPTIONS"}

\* every text of at most n lexemes over the alphabet
TextsUpTo(alphabet, n) ==
  UNION {[1 .. k -> {L(c) : c \in alphabet}] : k \in 0 .. n}

ArgAlphabet == {"0", "1", "2", "4", "-", "a"}

HttpcodeArgs == TextsUpTo(ArgAlphabet, MaxArgLen)

\* first path segments: the five routes, and others
FirstSegments ==
  {T(<<"token">>), T(<<"logout">>), T(<<"login">>), T(<<"user">>),
   T(<<"httpcode">>), T(<<"foo">>), T(<<"token", "s">>), T(<<"TOKEN">>), <<>>}

\* what follows the first segment
Rests == {<<>>, T(<<"/", "x">>), T(<<"?", "q">>)}

Urls ==
  {undefined, <<>>, T(<<"*">>), T(<<"token">>),
   T(<<"/", "httpcode", "/", "9", "9", "9">>),
   T(<<"/", "httpcode", "/", "1", "0", "0", "0">>),
   T(<<"/", "httpcode", "/", "3", "0", "4">>),
   T(<<"/", "httpcode", "/", "5", "0", "0">>),
   T(<<"/", "httpcode", "/", "2", "0", "0", "a">>),
   T(<<"/", "httpcode", "/", "2", "0", "0", "/", "x">>)}
    \cup {T(<<"/">>) \o seg \o rest : seg \in FirstSegments, rest \in Rests}
    \cup {T(<<"/", "httpcode", "/">>) \o arg : arg \in HttpcodeArgs}

HeaderValues == {"", "http://localhost:3000"}

RequestHeaderValues == {"", "authorization,content-type"}

OptionalHeader(name, values) == {<<>>} \cup {name :> v : v \in values}

RequestHeaders ==
  {o @@ a : o \in OptionalHeader("origin", HeaderValues),
            a \in OptionalHeader("access-control-request-headers",
                                 RequestHeaderValues)}

Request(method, url, headers) ==
  [method |-> method, url |-> url, headers |-> headers]

Requests ==
  {Request(m, u, h) : m \in Methods, u \in Urls, h \in RequestHeaders}

NoRequest == Request("", undefined, <<>>)

(***************************************************************************)
(* What the identity CLI prints.                                           *)
(***************************************************************************)
DateLex(f) == [s |-> "\"date-time\"", d |-> f]

Days ==
  {<<1969, 12, 31>>, <<1970, 1, 1>>, <<2023, 12, 31>>, <<2024, 1, 1>>,
   <<2024, 3, 1>>, <<2037, 12, 31>>}

Times == {<<0, 0, 0>>, <<0, 4, 59>>, <<0, 5, 0>>, <<12, 30, 15>>, <<23, 59, 59>>}

Millis == {0, 500}

\* minutes east of UTC of the zone a date-time string is read in
ZoneOffsets == {0, 330, -480}

DateFields ==
  {day \o time \o <<ms, off>> :
     day \in Days, time \in Times, ms \in Millis, off \in ZoneOffsets}

SomeDate == <<2024, 3, 1, 0, 4, 59, 500, 330>>

\* a member of an object: value is the text of the value
Member(key, value) == <<L(key), L(":")>> \o value

Object1(key, value) == <<L("{")>> \o Member(key, value) \o <<L("}")>>

Object2(k1, v1, k2, v2) ==
  <<L("{")>> \o Member(k1, v1) \o <<L(",")>> \o Member(k2, v2) \o <<L("}")>>

\* stdout any command may print
CommonStdouts ==
  {<<>>,
   T(<<"ERROR:", "Please", "run", "az", "login">>),
   <<L("caf"), InvalidByte>>,
   T(<<"{">>), T(<<"{", "}">>), T(<<"{", "}", "}">>),
   T(<<"null">>), T(<<"0">>), T(<<"true">>), T(<<"\"eyJ0eXAi\"">>),
   Object1("\"accessToken\"", <<L("\"eyJ0eXAi\"")>>),
   Object1("\"expiresOn\"", <<L("\"\"")>>),
   Object1("\"expiresOn\"", <<L("\"not a date\"")>>),
   Object1("\"expiresOn\"", <<L("null")>>),
   Object1("\"expiresOn\"", <<L("0")>>),
   Object1("\"expiresOn\"", <<L("1700000000")>>),
   Object1("\"expiresOn\"", <<L("true")>>),
   <<L("{")>> \o Member("\"expiresOn\"", T(<<"{", "}">>)) \o <<L("}")>>,
   <<L("{")>> \o Member("\"expiresOn\"", <<DateLex(SomeDate)>>),
   Object1("\"expiresOn\"", <<DateLex(SomeDate)>>),
   Object2("\"accessToken\"", <<L("\"eyJ0eXAi\"")>>, "\"expiresOn\"", <<DateLex(SomeDate)>>),
   Object2("\"expiresOn\"", <<DateLex(SomeDate)>>, "\"accessToken\"", <<L("\"eyJ0eXAi\"")>>),
   Object2("\"expiresOn\"", <<DateLex(SomeDate)>>, "\"expiresOn\"", <<L("\"\"")>>),
   Object2("\"expiresOn\"", <<L("\"not a date\"")>>, "\"expiresOn\"", <<DateLex(SomeDate)>>)}

TokenStdouts ==
  {Object2("\"accessToken\"", <<L("\"eyJ0eXAi\"")>>, "\"expiresOn\"", <<DateLex(f)>>) :
     f \in DateFields}

Stdouts(command) ==
  IF command = execSyncCommand("account get-access-token -o json")
  THEN CommonStdouts \cup TokenStdouts
  ELSE CommonStdouts

ExitStatuses == {1, 2, 127}

Signals == {"SIGTERM"}

\* system errors of a spawn that fails: no process or memory left
SpawnErrors == {"EAGAIN"}

\* stdout of a child process that fails
FailureStdouts ==
  {<<>>, T(<<"ERROR:", "Please", "run", "az", "login">>),
   Object1("\"expiresOn\"", <<DateLex(SomeDate)>>)}

\* the ways a child process running `command` can end
Runs(command) ==
  {Exited(0, out) : out \in Stdouts(command)}
    \cup {Exited(st, out) : st \in ExitStatuses, out \in FailureStdouts}
    \cup {Killed(sig, out) : sig \in Signals, out \in FailureStdouts}
    \cup {SpawnFailed(code) : code \in SpawnErrors}

(***************************************************************************)
(* The self-heal driver e2e-test-generator/shel_v2.sh.  It takes the first *)
(* .spec.ts file that find lists, runs it under Playwright with the JSON   *)
(* reporter redirected to the result file, and hands a failed run to the   *)
(* healer.  The script has no `set -e`: a failing command ends it only     *)
(* where the script says `exit`.  The two mkdir of lines 8-9 decide        *)
(* nothing and are left out.                                               *)
(***************************************************************************)
\* the test files find may list under $TEST_DIR, in the order it lists them
SpecFiles == {"login.spec.ts", "chat.spec.ts"}

Listings ==
  {<<>>} \cup {<<f>> : f \in SpecFiles}
         \cup {l \in SpecFiles \X SpecFiles : l[1] # l[2]}

\* head -n 1: the first line of the listing, the empty string when none
head1(listing) == IF listing = <<>> THEN "" ELSE Head(listing)

\* a result file that does not exist
NoFile == <<L("no-such-file")>>

\* the report of the JSON reporter
Report == Object1("\"stats\"", <<L("{"), L("}")>>)

\* what the test run may have printed to its standard output: the report,
\* nothing, a report cut short, two documents, a message that is no JSON
ResultTexts ==
  {Report,
   <<>>,
   <<L("{"), L("\"stats\""), L(":")>>,
   Report \o Report,
   <<L("Error: browser not found")>>,
   <<L("Error: browser not found")>> \o Report}

ExitCodes == {0, 1, 127, 130}

\* line 30: when the redirection cannot open the result file the shell
\* does not run the command and $? is 1; otherwise the file holds the
\* standard output of the run and $? is its exit status
TestRuns ==
  {[exit_code |-> 1, resultfile |-> NoFile]}
    \cup {[exit_code |-> c, resultfile |-> out] :
            c \in ExitCodes, out \in ResultTexts}

\* the JSON texts jq reads from its input, one after the other: any number
\* of them, none included
RECURSIVE JqReads(_, _)
JqReads(text, i) ==
  IF i = Len(text) + 1 THEN TRUE
  ELSE LET v == ParseValue(text, i)
       IN  v.ok /\ JqReads(text, v.next)

\* the exit status of `jq . file`: 2 when the file cannot be read or holds
\* something that is no JSON, 0 otherwise
jq(file) ==
  IF file = NoFile THEN 2
  ELSE IF JqReads(file, 1) THEN 0
  ELSE 2

\* the exit statuses of the healer, python self_heal.py
HealerStatuses == {0, 1}

\* the script before its first command: the step it is at, its variables
\* testfile and exit_code, the content of the result file, the number of
\* times the healer was run, and the exit status once pc is "exited"
ScriptStart ==
  [pc |-> "find", testfile |-> "", exit_code |-> 0, resultfile |-> NoFile,
   healed |-> 0, healer |-> 0, status |-> 0]

\* exit n
Exit(s, n) == [s EXCEPT !.pc = "exited", !.status = n]

(***************************************************************************)
(* The Playwright configuration module playwright.config.ts.  What it      *)
(* reads is the process environment: ENVIRONMENT, TAG and CI, each either  *)
(* unset (undefined) or a text.  An environment name is one lexeme, every  *)
(* white space character a lexeme of its own.  The timeouts of             *)
(* constants.ts, the projects and the stdout option of a web server are    *)
(* left out.                                                               *)
(***************************************************************************)
WhiteSpace == {" ", "\t", "\n"}

RECURSIVE trimStart(_)
trimStart(text) ==
  IF text # <<>> /\ Head(text).s \in WhiteSpace THEN trimStart(Tail(text))
  ELSE text

RECURSIVE trimEnd(_)
trimEnd(text) ==
  IF text # <<>> /\ text[Len(text)].s \in WhiteSpace
  THEN trimEnd(SubSeq(text, 1, Len(text) - 1))
  ELSE text

\* String.prototype.trim
trim(text) == trimEnd(trimStart(text))

\* value || fallback, for texts
OrText(value, fallback) == IF Falsy(value) THEN fallback ELSE value

\* line 4
environmentOf(ENVIRONMENT) == trim(OrText(ENVIRONMENT, <<L("local")>>))

\* line 5
validEnvironments == <<"prod", "int", "dev", "local", "canary">>

\* Array.prototype.includes: an element that is the text itself
includes(names, text) == \E i \in DOMAIN names : text = <<L(names[i])>>

\* line 7
InvalidEnvironment(environment) ==
  <<L("Invalid environment: ")>> \o environment
    \o <<L(". Expected one of prod, int, dev, local, canary")>>

\* lines 9-10
tagOf(TAG) == trim(OrText(TAG, <<>>))

resultsPrefix(tag, environment) ==
  IF Falsy(tag) THEN environment ELSE tag \o <<L("-")>> \o environment

\* lines 12-18
baseUrlMap ==
  [prod   |-> "https://ai.azure.com/",
   int    |-> "https://int.ai.azure.com/",
   dev    |-> "https://dev.ai.azure.com/",
   local  |-> "https://dev.ai.azure.com/",
   canary |-> "https://eastus2euap.ai.azure.com/"]

\* lines 20-26
oaiBaseUrlMap ==
  [prod   |-> "https://oai.azure.com/",
   int    |-> "https://int.oai.azure.com/",
   dev    |-> "https://dev.oai.azure.com/",
   local  |-> "https://dev.oai.azure.com/",
   canary |-> "https://canary.oai.azure.com/"]

\* the name a valid environment is
NameOf(environment) == environment[1].s

\* lines 68-74: the web server that is the token server
tokenServer ==
  [command |-> "yarn --cwd ./../../ start-token-server", port |-> 3001,
   reuseExistingServer |-> TRUE]

\* lines 85-92
previewAIStudioWebServer ==
  [command |-> "yarn --cwd ./../../ preview:ai-studio", port |-> 443,
   reuseExistingServer |-> TRUE]

\* lines 94-101
startAIStudioWebServer ==
  [command |-> "yarn --cwd ./../../ start:ai-studio", port |-> 443,
   reuseExistingServer |-> TRUE]

\* lines 28-83; CI is process.env.CI
defaultConfig(environment, CI, tag) ==
  [forbidOnly |-> ~Falsy(CI),
   retries |-> IF Falsy(CI) THEN 0 ELSE 1,
   workers |-> IF Falsy(CI) THEN 1 ELSE 2,
   baseURL |-> baseUrlMap[NameOf(environment)],
   screenshot |-> IF Falsy(CI) THEN "off" ELSE "only-on-failure",
   ignoreHTTPSErrors |-> FALSE,
   webServer |-> <<tokenServer>>,
   reporter |-> resultsPrefix(tag, environment)]

\* lines 103-110
localConfig(environment, CI, tag) ==
  [defaultConfig(environment, CI, tag) EXCEPT
     !.ignoreHTTPSErrors = TRUE,
     !.webServer = <<startAIStudioWebServer>>
                     \o defaultConfig(environment, CI, tag).webServer]

\* a configuration for dev that starts the preview server alone
devConfig_previewServerOnly(environment, CI, tag) ==
  [localConfig(environment, CI, tag) EXCEPT
     !.webServer = <<previewAIStudioWebServer>>]

\* lines 112-115
devConfig(environment, CI, tag) ==
  [localConfig(environment, CI, tag) EXCEPT
     !.webServer = <<previewAIStudioWebServer>>
                     \o defaultConfig(environment, CI, tag).webServer]

\* lines 117-124: configMap[environment] || localConfig; canary is no key
\* of configMap
config(environment, CI, tag) ==
  CASE NameOf(environment) \in {"prod", "int"} ->
         defaultConfig(environment, CI, tag)
    [] NameOf(environment) = "dev" -> devConfig(environment, CI, tag)
    [] NameOf(environment) = "local" -> localConfig(environment, CI, tag)
    [] OTHER -> localConfig(environment, CI, tag)

\* no configuration
NoConfig ==
  [forbidOnly |-> FALSE, retries |-> 0, workers |-> 0, baseURL |-> "",
   screenshot |-> "", ignoreHTTPSErrors |-> FALSE, webServer |-> <<>>,
   reporter |-> <<>>]

\* the values of the process environment
EnvironmentNames ==
  {"prod", "int", "dev", "local", "canary", "staging", "Prod", "constructor"}

Paddings == {<<>>, <<L(" ")>>, <<L("\t")>>, <<L("\n"), L(" ")>>}

Environments ==
  {undefined, <<>>}
    \cup Paddings
    \cup {l \o <<L(n)>> \o r :
            l \in Paddings, n \in EnvironmentNames, r \in Paddings}

Tags == {undefined, <<>>, <<L("nightly")>>, <<L("nightly"), L(" ")>>}

CIs == {undefined, <<>>, <<L("true")>>}

\* the module before its first line: the process environment it was started
\* in, its constant environment, the error it threw and its default export
ModuleStart ==
  [pc |-> "start", ENVIRONMENT |-> undefined, TAG |-> undefined,
   CI |-> undefined, environment |-> undefined, error |-> <<>>,
   oaiBaseURL |-> "", config |-> NoConfig]

(***************************************************************************)
(* State.                                                                  *)
(***************************************************************************)
VARIABLES
  queue,      \* requests received and not yet dispatched to the handler
              \* (empty as long as clients send one request at a time)
  pc,         \* "idle"; "execSync" while the handler waits for the child;
              \* "done" once the handler has run; "crashed" once the
              \* process has exited on an unhandled rejection
  request,    \* the request the handler runs for, or NoRequest
  child,      \* the command line of the running child process, or ""
  launched,   \* the child processes launched for `request`
  run,        \* how the child process launched for `request` ended
  response,   \* the response object of `request`
  outcome,    \* "returned", "caught" or "unhandled" once the handler ran
  script,     \* the run of the self-heal driver shel_v2.sh
  playwright  \* the load of the module playwright.config.ts

vars ==
  <<queue, pc, request, child, launched, run, response, outcome,
    script, playwright>>

Init ==
  /\ queue = <<>>
  /\ pc = "idle"
  /\ request = NoRequest
  /\ child = ""
  /\ launched = 0
  /\ run = NoRun
  /\ response = NewResponse
  /\ outcome = "none"
  /\ script = ScriptStart
  /\ playwright = ModuleStart

\* the handler is entered for req: it runs to its end, or up to execSync
StartHandler(req) ==
  /\ request' = req
  /\ run' = NoRun
  /\ IF Dispatch(req).kind = "az"
     THEN /\ pc' = "execSync"
          /\ child' = execSyncCommand(Dispatch(req).cmd)
          /\ launched' = 1
          /\ response' = NewResponse
          /\ outcome' = "none"
     ELSE /\ pc' = "done"
          /\ child' = ""
          /\ launched' = 0
          /\ response' = Handler(req, NoRun).res
          /\ outcome' = Handler(req, NoRun).outcome
  /\ UNCHANGED <<script, playwright>>

\* a client sends a request while the relay is idle, and it is dispatched
Serve(req) ==
  /\ pc = "idle"
  /\ queue = <<>>
  /\ StartHandler(req)
  /\ UNCHANGED queue

\* a child process that is launched again when it fails
ChildExit_retriesOnFailure(r) ==
  /\ pc = "execSync"
  /\ IF HasStatus(r) /\ r.status = 0
     THEN /\ pc' = "done"
          /\ child' = ""
          /\ run' = r
          /\ response' = Handler(request, r).res
          /\ outcome' = Handler(request, r).outcome
          /\ UNCHANGED <<queue, request, launched>>
     ELSE /\ launched' = launched + 1
          /\ UNCHANGED <<queue, pc, request, child, run, response, outcome>>
  /\ UNCHANGED <<script, playwright>>

\* execSync with a timeout: the wait also ends, with an error, while the
\* child process has not ended
ChildExit_orTimeout(r) ==
  /\ pc = "execSync"
  /\ pc' = "done"
  /\ child' = ""
  /\ \/ /\ run' = r
        /\ response' = Handler(request, r).res
        /\ outcome' = Handler(request, r).outcome
     \/ /\ run' = NoRun
        /\ response' = CatchBlock(NewResponse, NodeError("ETIMEDOUT")).res
        /\ outcome' = "caught"
  /\ UNCHANGED <<queue, request, launched>>
  /\ UNCHANGED <<script, playwright>>

\* the child process ends and execSync returns or throws; the handler runs
\* to its end
ChildExit(r) ==
  /\ pc = "execSync"
  /\ pc' = "done"
  /\ child' = ""
  /\ run' = r
  /\ response' = Handler(request, r).res
  /\ outcome' = Handler(request, r).outcome
  /\ UNCHANGED <<queue, request, launched>>
  /\ UNCHANGED <<script, playwright>>

\* the exchange is over: the request and response objects are dropped
Release ==
  /\ pc = "done"
  /\ pc' = "idle"
  /\ request' = NoRequest
  /\ child' = ""
  /\ launched' = 0
  /\ run' = NoRun
  /\ response' = NewResponse
  /\ outcome' = "none"
  /\ UNCHANGED queue
  /\ UNCHANGED <<script, playwright>>

\* the handler's promise was rejected and nothing handles the rejection:
\* node 15 and later end the process (earlier ones warn and go on, which is
\* Release)
Crash ==
  /\ pc = "done"
  /\ outcome = "unhandled"
  /\ pc' = "crashed"
  /\ UNCHANGED <<queue, request, child, launched, run, response, outcome>>
  /\ UNCHANGED <<script, playwright>>

Next ==
  \/ \E req \in Requests : Serve(req)
  \/ \E r \in Runs(child) : ChildExit(r)
  \/ Release
  \/ Crash

Spec == Init /\ [][Next]_vars

(***************************************************************************)
(* Clients that do not wait for each other.  A request that arrives while  *)
(* the handler runs, or while execSync blocks the event loop, waits in     *)
(* `queue` until the event loop is free: the handler has no await, so it   *)
(* runs from its first line to its last in one turn of the loop.           *)
(***************************************************************************)
MaxQueue == 2

\* the requests of the concurrent clients: the CLI routes and the others
QueueRequests ==
  {Request("GET", T(<<"/", "token">>), <<>>),
   Request("GET", T(<<"/", "user">>), <<>>),
   Request("GET", T(<<"/", "logout">>), <<>>),
   Request("OPTIONS", T(<<"/", "token">>), <<>>),
   Request("GET", T(<<"/", "httpcode", "/", "2", "0", "0">>), <<>>),
   Request("GET", T(<<"/", "httpcode", "/", "1">>), <<>>),
   Request("GET", T(<<"/", "foo">>), <<>>)}

\* the ways their child processes end
QueueRuns(command) ==
  {r \in Runs(command) :
     r.stdout \in {<<>>, Object1("\"accessToken\"", <<L("\"eyJ0eXAi\"")>>)}}

\* a request arrives, whatever the running relay is doing
Arrive(req) ==
  /\ pc # "crashed"
  /\ Len(queue) < MaxQueue
  /\ queue' = Append(queue, req)
  /\ UNCHANGED <<pc, request, child, launched, run, response, outcome>>
  /\ UNCHANGED <<script, playwright>>

\* an event loop that is free for other requests while the child of a
\* handler runs, as with an asynchronous exec
Dequeue_whileChildRuns ==
  /\ pc \in {"idle", "execSync"}
  /\ queue # <<>>
  /\ StartHandler(Head(queue))
  /\ queue' = Tail(queue)

\* the event loop is free and dispatches the oldest waiting request
Dequeue ==
  /\ pc = "idle"
  /\ queue # <<>>
  /\ StartHandler(Head(queue))
  /\ queue' = Tail(queue)

NextQueue ==
  \/ \E req \in QueueRequests : Arrive(req)
  \/ Dequeue
  \/ \E r \in QueueRuns(child) : ChildExit(r)
  \/ Release
  \/ Crash

SpecQueue == Init /\ [][NextQueue]_vars

(***************************************************************************)
(* The run of shel_v2.sh, one command after the other.                     *)
(***************************************************************************)
relay == <<queue, pc, request, child, launched, run, response, outcome>>

\* lines 12-16: testfile is the first file find lists; without one, exit 1
FindTestfile(listing) ==
  /\ script.pc = "find"
  /\ script' = IF head1(listing) = ""
               THEN Exit(script, 1)
               ELSE [script EXCEPT !.pc = "cd", !.testfile = head1(listing)]
  /\ UNCHANGED <<relay, playwright>>

\* line 23: cd apps/ai-studio || exit 1
ChangeDirectory(ok) ==
  /\ script.pc = "cd"
  /\ script' = IF ok THEN [script EXCEPT !.pc = "test"] ELSE Exit(script, 1)
  /\ UNCHANGED <<relay, playwright>>

\* lines 30-31: the test run writes the result file; exit_code=$?
RunTest(r) ==
  /\ script.pc = "test"
  /\ script' = [script EXCEPT !.pc = "jq",
                              !.exit_code = r.exit_code,
                              !.resultfile = r.resultfile]
  /\ UNCHANGED <<relay, playwright>>

\* lines 37-43: if ! jq . "../$resultfile"; then ... exit 1
CheckResultfile ==
  /\ script.pc = "jq"
  /\ script' = IF jq(script.resultfile) # 0
               THEN Exit(script, 1)
               ELSE [script EXCEPT !.pc = "exit_code"]
  /\ UNCHANGED <<relay, playwright>>

\* lines 45-50: if [ $exit_code -ne 0 ]; then go on; else exit 0
CheckExitCode ==
  /\ script.pc = "exit_code"
  /\ script' = IF script.exit_code # 0
               THEN [script EXCEPT !.pc = "heal"]
               ELSE Exit(script, 0)
  /\ UNCHANGED <<relay, playwright>>

\* lines 52-54: the healer runs, whatever its status the script goes on to
\* its last echo and ends with the status of that echo
SelfHeal(st) ==
  /\ script.pc = "heal"
  /\ script' = Exit([script EXCEPT !.healed = @ + 1, !.healer = st], 0)
  /\ UNCHANGED <<relay, playwright>>

NextHeal ==
  \/ \E listing \in Listings : FindTestfile(listing)
  \/ \E ok \in BOOLEAN : ChangeDirectory(ok)
  \/ \E r \in TestRuns : RunTest(r)
  \/ CheckResultfile
  \/ CheckExitCode
  \/ \E st \in HealerStatuses : SelfHeal(st)

SpecHeal == Init /\ [][NextHeal]_vars

(***************************************************************************)
(* The load of playwright.config.ts, from its first line to its export.    *)
(***************************************************************************)
\* line 4: the module is loaded in a process whose environment holds env,
\* tag and ci for ENVIRONMENT, TAG and CI
ReadEnvironment(env, tag, ci) ==
  /\ playwright.pc = "start"
  /\ playwright' = [playwright EXCEPT !.pc = "validate",
                                      !.ENVIRONMENT = env,
                                      !.TAG = tag,
                                      !.CI = ci,
                                      !.environment = environmentOf(env)]
  /\ UNCHANGED <<relay, script>>

\* lines 5-8: an environment that is none of the valid ones throws
ValidateEnvironment ==
  /\ playwright.pc = "validate"
  /\ playwright' =
       IF ~includes(validEnvironments, playwright.environment)
       THEN [playwright EXCEPT
               !.pc = "threw",
               !.error = InvalidEnvironment(playwright.environment)]
       ELSE [playwright EXCEPT !.pc = "export"]
  /\ UNCHANGED <<relay, script>>

\* lines 9-130: the configurations are built, one is selected and exported
ExportConfig ==
  /\ playwright.pc = "export"
  /\ playwright' =
       [playwright EXCEPT
          !.pc = "loaded",
          !.oaiBaseURL =
             oaiBaseUrlMap[NameOf(OrText(playwright.environment,
                                         <<L("local")>>))],
          !.config = config(playwright.environment, playwright.CI,
                            tagOf(playwright.TAG))]
  /\ UNCHANGED <<relay, script>>

NextConfig ==
  \/ \E env \in Environments, tag \in Tags, ci \in CIs :
       ReadEnvironment(env, tag, ci)
  \/ ValidateEnvironment
  \/ ExportConfig

SpecConfig == Init /\ [][NextConfig]_vars

(***************************************************************************)
(* Vocabulary of the properties, defined on the request and the run as     *)
(* given, not through the handler's own operators.                         *)
(***************************************************************************)
Done == pc = "done"

Sent == response.heads > 0

\* the url's first path segment is `name`: "/name" or "/name/..."
FirstSegmentIs(url, name) ==
  /\ url # undefined
  /\ Len(url) >= 2
  /\ url[1] = L("/")
  /\ url[2] = L(name)
  /\ (Len(url) = 2 \/ url[3] = L("/"))

CliRoutes == {"token", "logout", "login", "user"}

\* a non-OPTIONS request to one of the four CLI routes has been answered
CliRequestDone ==
  /\ Done
  /\ request.method # "OPTIONS"
  /\ \E name \in CliRoutes : FirstSegmentIs(request.url, name)

TokenRequestDone ==
  Done /\ request.method # "OPTIONS" /\ FirstSegmentIs(request.url, "token")

ExitedWith(status) == run.error = "" /\ run.signal = "" /\ run.status = status

HasHeader(name) == name \in DOMAIN response.headers

\* one response: one head written, ended once
OneResponse == response.heads = 1 /\ response.ended = 1

\* C1: on /token, /logout, /login and /user a CLI exit status of 1 gives
\* HTTP 200 with an empty body, not the failure handler's 500
C1_ExitOneIsEmpty200 ==
  (CliRequestDone /\ ExitedWith(1)) =>
    /\ outcome = "returned"
    /\ OneResponse
    /\ response.status = 200
    /\ response.body = <<>>

C1_Witness ==
  /\ CliRequestDone /\ ExitedWith(1)
  /\ FirstSegmentIs(request.url, "logout")
  /\ run.stdout # <<>>
  /\ response.status = 200

PrevDay(y, m, d) ==
  IF d > 1 THEN <<y, m, d - 1>>
  ELSE IF m > 1 THEN <<y, m - 1, MonthLen(y, m - 1)>>
  ELSE <<y - 1, 12, 31>>

NextDay(y, m, d) ==
  IF d < MonthLen(y, m) THEN <<y, m, d + 1>>
  ELSE IF m < 12 THEN <<y, m + 1, 1>>
  ELSE <<y + 1, 1, 1>>

\* 0 = Sunday
Zeller(y, m, d) ==
  LET mm == IF m < 3 THEN m + 12 ELSE m
      yy == IF m < 3 THEN y - 1 ELSE y
      k  == yy % 100
      j  == yy \div 100
      h  == (d + ((13 * (mm + 1)) \div 5) + k + (k \div 4) + (j \div 4) + 5 * j) % 7
  IN  (h + 6) % 7

FiveMinutesBefore(f) ==
  LET minute == f[4] * 60 + f[5] - f[8] - 5
      day    == IF minute < 0 THEN PrevDay(f[1], f[2], f[3])
                ELSE IF minute >= 1440 THEN NextDay(f[1], f[2], f[3])
                ELSE <<f[1], f[2], f[3]>>
      m      == minute % 1440
  IN  HttpDate(Zeller(day[1], day[2], day[3]), day[3], day[2], day[1],
               m \div 60, m % 60, f[6])

\* stdout is a JSON object whose expiresOn member is the date-time f
JsonWithExpiresOn(stdout, f) ==
  stdout \in
    {Object1("\"expiresOn\"", <<DateLex(f)>>),
     Object2("\"accessToken\"", <<L("\"eyJ0eXAi\"")>>, "\"expiresOn\"", <<DateLex(f)>>),
     Object2("\"expiresOn\"", <<DateLex(f)>>, "\"accessToken\"", <<L("\"eyJ0eXAi\"")>>)}

\* C3: a /token response whose CLI stdout is JSON with expiresOn = T has
\* Cache-Control: private and Expires = T - 300 s as an HTTP date
C3_ExpiresFiveMinutesEarly ==
  (TokenRequestDone /\ ExitedWith(0)) =>
    \A f \in DateFields \cup {SomeDate} :
      JsonWithExpiresOn(run.stdout, f) =>
        /\ response.status = 200
        /\ HasHeader("Cache-Control")
        /\ response.headers["Cache-Control"] = "private"
        /\ HasHeader("Expires")
        /\ response.headers["Expires"] = FiveMinutesBefore(f)

\* an expiry two minutes into a year, read in a zone east of UTC: the
\* advertised expiry falls in the year before
C3_Witness ==
  /\ TokenRequestDone /\ ExitedWith(0)
  /\ JsonWithExpiresOn(run.stdout, <<2024, 1, 1, 0, 4, 59, 500, 330>>)
  /\ HasHeader("Expires")
  /\ response.headers["Expires"] = "Sun, 31 Dec 2023 18:29:59 GMT"

\* texts that are not JSON, and JSON texts without an expiresOn member
NotJson ==
  {<<>>, T(<<"ERROR:", "Please", "run", "az", "login">>), T(<<"{">>),
   T(<<"{", "}", "}">>),
   <<L("{")>> \o Member("\"expiresOn\"", <<DateLex(SomeDate)>>)}

JsonWithoutExpiresOn ==
  {T(<<"{", "}">>), T(<<"null">>), T(<<"0">>), T(<<"true">>),
   T(<<"\"eyJ0eXAi\"">>), Object1("\"accessToken\"", <<L("\"eyJ0eXAi\"")>>)}

HeaderOrWhenAbsent(name, dflt) ==
  IF name \in DOMAIN request.headers THEN request.headers[name] ELSE dflt

\* the request's header, or dflt when the header is absent or empty
HeaderOrWhenEmpty(name, dflt) ==
  IF name \in DOMAIN request.headers /\ request.headers[name] # ""
  THEN request.headers[name] ELSE dflt

\* C5: every response, whatever its status, carries
\* Access-Control-Allow-Origin = the request's Origin (or "self" if absent)
\* and Access-Control-Allow-Headers = the request's
\* Access-Control-Request-Headers (or "*" if absent)
C5_CorsOnEveryResponse ==
  Sent =>
    /\ HasHeader("Access-Control-Allow-Origin")
    /\ response.headers["Access-Control-Allow-Origin"]
         = HeaderOrWhenAbsent("origin", "self")
    /\ HasHeader("Access-Control-Allow-Headers")
    /\ response.headers["Access-Control-Allow-Headers"]
         = HeaderOrWhenAbsent("access-control-request-headers", "*")

\* C6: every response has Content-Type: text/plain, 500 responses included
C6_TextPlainOnEveryResponse ==
  Sent =>
    /\ HasHeader("Content-Type")
    /\ response.headers["Content-Type"] = "text/plain"

(***************************************************************************)
(* /httpcode requests, read off the url as given.                          *)
(***************************************************************************)
HttpcodePrefix == T(<<"/", "httpcode", "/">>)

\* the url is "/httpcode/<arg>" with <arg> free of "/"
HasHttpcodeArg(url) ==
  /\ url # undefined
  /\ Len(url) >= 3
  /\ SubSeq(url, 1, 3) = HttpcodePrefix
  /\ \A i \in 4 .. Len(url) : url[i] # L("/")

HttpcodeArg(url) == SubSeq(url, 4, Len(url))

Unsigned(text) ==
  IF text # <<>> /\ text[1] \in {L("-"), L("+")} THEN Tail(text) ELSE text

\* an optional sign and one or more decimal digits
IsIntegerString(text) ==
  Unsigned(text) # <<>> /\ \A i \in DOMAIN Unsigned(text) : Unsigned(text)[i].s \in Digits

RECURSIVE DecimalValue(_)
DecimalValue(digits) ==
  IF digits = <<>> THEN 0
  ELSE 10 * DecimalValue(SubSeq(digits, 1, Len(digits) - 1))
         + DigitVal(digits[Len(digits)].s)

IntegerOf(text) ==
  IF text[1] = L("-") THEN 0 - DecimalValue(Unsigned(text))
  ELSE DecimalValue(Unsigned(text))

\* a non-OPTIONS request to /httpcode/<n>, <n> an integer string, is answered
IntegerHttpcodeDone ==
  /\ Done
  /\ request.method # "OPTIONS"
  /\ HasHttpcodeArg(request.url)
  /\ IsIntegerString(HttpcodeArg(request.url))

HttpcodeDone ==
  Done /\ request.method # "OPTIONS" /\ FirstSegmentIs(request.url, "httpcode")

\* C8: /httpcode never fails: whatever the argument, the request is answered
\* by the httpcode branch and never by the failure handler
C8_HttpcodeNeverFails == HttpcodeDone => outcome = "returned"

\* C9: /httpcode without argument, or with a non-numeric argument, gives 404
\* with the argument text as body (empty when the argument is missing)
C9_NonNumericIs404 ==
  /\ (Done /\ request.method # "OPTIONS" /\ request.url = T(<<"/", "httpcode">>)) =>
       response.status = 404 /\ response.body = <<>>
  /\ (Done /\ request.method # "OPTIONS" /\ HasHttpcodeArg(request.url)
        /\ ~IsIntegerString(HttpcodeArg(request.url))) =>
       response.status = 404 /\ response.body = HttpcodeArg(request.url)

\* an OPTIONS request is answered
OptionsDone == Done /\ request.method = "OPTIONS"

\* C10 as stated: an OPTIONS request to any path gives 200, an empty body and
\* CORS headers equal to the request's Origin and
\* Access-Control-Request-Headers, "self" and "*" when the header is absent
C10_OptionsReflectsOrDefaultsWhenAbsent ==
  OptionsDone =>
    /\ outcome = "returned"
    /\ OneResponse
    /\ response.status = 200
    /\ response.body = <<>>
    /\ HasHeader("Access-Control-Allow-Origin")
    /\ response.headers["Access-Control-Allow-Origin"]
         = HeaderOrWhenAbsent("origin", "self")
    /\ HasHeader("Access-Control-Allow-Headers")
    /\ response.headers["Access-Control-Allow-Headers"]
         = HeaderOrWhenAbsent("access-control-request-headers", "*")

\* C10 amended: the defaults "self" and "*" also stand in for a header that
\* is present with an empty value
C10_OptionsReflectsOrDefaults ==
  OptionsDone =>
    /\ outcome = "returned"
    /\ OneResponse
    /\ launched = 0
    /\ response.status = 200
    /\ response.body = <<>>
    /\ HasHeader("Access-Control-Allow-Origin")
    /\ response.headers["Access-Control-Allow-Origin"]
         = HeaderOrWhenEmpty("origin", "self")
    /\ HasHeader("Access-Control-Allow-Headers")
    /\ response.headers["Access-Control-Allow-Headers"]
         = HeaderOrWhenEmpty("access-control-request-headers", "*")

\* a preflight for /token with an empty Origin and requested headers
C10_Witness ==
  /\ OptionsDone
  /\ FirstSegmentIs(request.url, "token")
  /\ "origin" \in DOMAIN request.headers /\ request.headers["origin"] = ""
  /\ response.headers["Access-Control-Allow-Origin"] = "self"
  /\ response.headers["Access-Control-Allow-Headers"] = "authorization,content-type"

\* the five first path segments the handler knows
Routes == CliRoutes \cup {"httpcode"}

\* a non-OPTIONS request with a url whose first path segment is none of the
\* five routes is answered
UnknownRouteDone ==
  /\ Done
  /\ request.method # "OPTIONS"
  /\ request.url # undefined /\ request.url # <<>>
  /\ \A name \in Routes : ~FirstSegmentIs(request.url, name)

MissingUrlDone ==
  /\ Done
  /\ request.method # "OPTIONS"
  /\ (request.url = undefined \/ request.url = <<>>)

\* C12 as stated: a non-OPTIONS request with a missing (undefined or empty)
\* url gives 404 with a body that names the unsupported path, as the body of
\* an unknown route does
C12_MissingUrlNamesPath ==
  MissingUrlDone =>
    /\ response.status = 404
    /\ response.body # <<>>
    /\ response.body[1] = L("Unsupported url ")

\* C12 amended: a non-OPTIONS request with a missing (undefined or empty)
\* url gives 404 with the fixed body "Empty url", which names no path
C12_MissingUrlIs404 ==
  MissingUrlDone =>
    /\ outcome = "returned"
    /\ OneResponse
    /\ launched = 0
    /\ response.status = 404
    /\ response.body = T(<<"Empty url">>)

C12_Witness ==
  /\ MissingUrlDone
  /\ request.url = <<>>
  /\ response.status = 404
  /\ response.body = T(<<"Empty url">>)

\* a non-OPTIONS request to one of the four CLI routes is answered after its
\* CLI exited with status 0
CliSuccessDone == CliRequestDone /\ ExitedWith(0)

\* the bytes hold no invalid UTF-8 sequence
ValidUtf8(bytes) == \A i \in DOMAIN bytes : bytes[i] # L("0xE9")

\* the bytes with every invalid sequence replaced by the bytes of U+FFFD
WithReplacements(bytes) ==
  [i \in DOMAIN bytes |->
     IF bytes[i] = L("0xE9") THEN L("0xEF 0xBF 0xBD") ELSE bytes[i]]

\* C13 as stated: on /token, /logout, /login and /user a CLI exit status of
\* 0 gives 200 with exactly the CLI's stdout as body, byte for byte
C13_BodyIsStdoutByteForByte ==
  CliSuccessDone =>
    /\ response.status = 200
    /\ response.body = run.stdout

\* C13 amended: the body is the CLI's stdout read as UTF-8 and sent as
\* UTF-8, neither parsed nor trimmed: the same bytes when stdout is valid
\* UTF-8, and otherwise stdout with U+FFFD in place of each invalid sequence
C13_BodyIsStdoutAsUtf8 ==
  CliSuccessDone =>
    /\ outcome = "returned"
    /\ OneResponse
    /\ response.status = 200
    /\ ValidUtf8(run.stdout) => response.body = run.stdout
    /\ response.body = WithReplacements(run.stdout)

\* `az account show` printing a name in Latin-1
C13_Witness ==
  /\ CliSuccessDone
  /\ FirstSegmentIs(request.url, "user")
  /\ run.stdout = <<L("caf"), L("0xE9")>>
  /\ response.body = <<L("caf"), L("0xEF 0xBF 0xBD")>>

\* C14: one request, one response: once the handler has run (the call of
\* execSync, if any, is over) the response head has been written exactly
\* once and the response ended exactly once, also when the first writeHead
\* threw; before that nothing has been written
C14_OneRequestOneResponse ==
  /\ Done => (OneResponse /\ outcome \in {"returned", "caught"})
  /\ ~Done => (response.heads = 0 /\ response.ended = 0)

\* the request is a non-OPTIONS request to one of the four CLI routes
IsCliRequest(req) ==
  req.method # "OPTIONS" /\ \E name \in CliRoutes : FirstSegmentIs(req.url, name)

\* C15: every non-OPTIONS request to /token, /logout, /login or /user has
\* exactly one CLI process launched for it, whatever its outcome: one is
\* running while the handler waits, one has run when the request is
\* answered, also when the same request is waiting behind it, and none is
\* launched again after a failure
C15_OneInvocationPerCliRequest ==
  /\ pc = "execSync" => (IsCliRequest(request) /\ launched = 1 /\ child # "")
  /\ CliRequestDone => (launched = 1 /\ child = "" /\ run # NoRun)
  /\ (Done /\ ~IsCliRequest(request)) => (launched = 0 /\ run = NoRun)

\* a second /token request arrived while the first was being served
C15_Witness ==
  /\ CliRequestDone
  /\ FirstSegmentIs(request.url, "token")
  /\ run.signal = "" /\ run.status = 2
  /\ queue # <<>> /\ Head(queue) = request
  /\ launched = 1

\* C17: request handling is serialized: a waiting request is dispatched only
\* when no handler is running and no child process is alive, a child process
\* is launched only then, and the relay is free again only after the
\* response of the request it served has been ended
C17_Serialized ==
  [][/\ Len(queue') < Len(queue) =>
          (pc = "idle" /\ child = "" /\ request' = Head(queue))
     /\ (child' # "" /\ child' # child) => (pc = "idle" /\ child = "")
     /\ (pc # "idle" /\ pc' = "idle") => (pc = "done" /\ response.ended = 1)
     /\ pc = "execSync" => (Len(queue') >= Len(queue) /\ request' = request)]_vars

NoStatusFailureDone ==
  CliRequestDone /\ (run.signal # "" \/ run.error # "")

\* C19: a failure of the CLI invocation without numeric exit status (killed
\* by a signal, or not spawned) is not swallowed: the request is answered
\* 500 by the failure handler, with the serialized error as body
C19_NoStatusFailureIs500 ==
  NoStatusFailureDone =>
    /\ outcome = "caught"
    /\ OneResponse
    /\ response.status = 500
    /\ response.body # <<>>
    /\ response.body[1] = L("{")

\* the lengths of the prefixes of the text that are integer strings
IntegerPrefixes(text) ==
  {k \in 1 .. Len(text) : IsIntegerString(SubSeq(text, 1, k))}

\* the integer a /httpcode argument starts with, if it starts with one
EchoedIntegers(text) ==
  {IntegerOf(SubSeq(text, 1, k)) :
     k \in {j \in IntegerPrefixes(text) : \A i \in IntegerPrefixes(text) : i <= j}}

\* the CLI invocation of the request failed hard: it ended otherwise than
\* with exit status 0 or 1
FailedHard == run # NoRun /\ ~ExitedWith(0) /\ ~ExitedWith(1)

C21_CacheHeadersOnlyOnToken ==
  (Done /\ Sent /\ ~(TokenRequestDone /\ response.status = 200)) =>
    (~HasHeader("Cache-Control") /\ ~HasHeader("Expires"))

\* `az account show` printing JSON with an expiresOn field
C21_Witness ==
  /\ CliRequestDone
  /\ FirstSegmentIs(request.url, "user")
  /\ ExitedWith(0)
  /\ run.stdout = Object1("\"expiresOn\"", <<DateLex(SomeDate)>>)
  /\ response.status = 200
  /\ response.body = run.stdout
  /\ ~HasHeader("Expires")

\* the values of an expiresOn field the CLI output samples hold
ExpiresOnValues ==
  {<<L("\"\"")>>, <<L("\"not a date\"")>>, <<L("null")>>, <<L("0")>>,
   <<L("1700000000")>>, <<L("true")>>, T(<<"{", "}">>)}
    \cup {<<DateLex(f)>> : f \in DateFields \cup {SomeDate}}

\* the stdout is a JSON object with an expiresOn field, whatever its value
JsonWithExpiresOnField(stdout) ==
  \E v \in ExpiresOnValues :
    \/ stdout = Object1("\"expiresOn\"", v)
    \/ stdout = Object2("\"accessToken\"", <<L("\"eyJ0eXAi\"")>>, "\"expiresOn\"", v)
    \/ stdout = Object2("\"expiresOn\"", v, "\"accessToken\"", <<L("\"eyJ0eXAi\"")>>)
    \/ \E w \in ExpiresOnValues : stdout = Object2("\"expiresOn\"", v, "\"expiresOn\"", w)

\* C22: on every /token response Cache-Control and Expires are both present
\* or both absent; after a CLI exit of 0 they are present exactly when the
\* stdout is JSON with an expiresOn field, whatever its value; and an
\* Expires header is a well-formed HTTP date
C22_CacheHeadersIffExpiresOnField ==
  (TokenRequestDone /\ Sent) =>
    /\ HasHeader("Cache-Control") <=> HasHeader("Expires")
    /\ ExitedWith(0) => (HasHeader("Expires") <=> JsonWithExpiresOnField(run.stdout))
    /\ HasHeader("Expires") => response.headers["Expires"] # "Invalid Date"

\* the url cut after its first segment, and for /httpcode after its second
RECURSIVE UpToSlash(_)
UpToSlash(text) ==
  IF text = <<>> \/ text[1] = L("/") THEN <<>>
  ELSE <<text[1]>> \o UpToSlash(Tail(text))

RoutePart(url) ==
  IF FirstSegmentIs(url, "httpcode") /\ Len(url) >= 3
  THEN SubSeq(url, 1, 3) \o UpToSlash(SubSeq(url, 4, Len(url)))
  ELSE SubSeq(url, 1, 2)

\* C23: dispatch is by the first path segment alone, matched exactly
\* against token, logout, login, user, httpcode: a request with one of these
\* as first segment is answered as the request without the further segments
\* is (for /httpcode, without those after the second), a child process runs
\* for the four CLI routes and for nothing else, and any other first segment
\* is an unknown route
C23_DispatchByFirstSegment ==
  /\ (Done /\ request.method # "OPTIONS"
        /\ \E name \in Routes : FirstSegmentIs(request.url, name)) =>
       /\ response
            = Handler(Request(request.method, RoutePart(request.url),
                              request.headers), run).res
       /\ launched = IF IsCliRequest(request) THEN 1 ELSE 0
  /\ UnknownRouteDone => (launched = 0 /\ response.status = 404)
  /\ pc = "execSync" => IsCliRequest(request)

\* /user/x is answered as /user is
C23_Witness ==
  /\ CliRequestDone
  /\ request.url = T(<<"/", "user", "/", "x">>)
  /\ ExitedWith(0)
  /\ run.stdout # <<>>
  /\ launched = 1
  /\ response.status = 200
  /\ response.body = run.stdout

\* the request needs no credential operation: OPTIONS to any path,
\* /httpcode, an unknown route, or no url
NeedsNoCli(req) ==
  \/ req.method = "OPTIONS"
  \/ FirstSegmentIs(req.url, "httpcode")
  \/ req.url = undefined \/ req.url = <<>>
  \/ \A name \in Routes : ~FirstSegmentIs(req.url, name)

\* C24: a request that needs no credential operation never launches the
\* identity CLI: no child process runs while it is handled and none has run
\* when it is answered
C24_NoCliWithoutCredentialOperation ==
  (request # NoRequest /\ NeedsNoCli(request)) =>
    /\ pc # "execSync"
    /\ child = ""
    /\ launched = 0
    /\ run = NoRun

\* a preflight for /login
C24_Witness ==
  /\ OptionsDone
  /\ FirstSegmentIs(request.url, "login")
  /\ launched = 0
  /\ run = NoRun
  /\ response.status = 200

\* C25: head-of-line blocking: while the child process of one request runs,
\* no other request is dispatched or answered: the requests that arrived
\* stay in the queue in their order, the handler stays with its request,
\* and the only response written is that request's own, when the child has
\* ended; so a child that never ends keeps them all without response
C25_HeadOfLineBlocking ==
  [][pc = "execSync" =>
       /\ request' = request
       /\ Len(queue') >= Len(queue)
       /\ SubSeq(queue', 1, Len(queue)) = queue
       /\ response' # response => (pc' = "done" /\ child' = "" /\ run' # NoRun)
       /\ pc' = "execSync" => child' = child]_vars

\* a preflight waits behind a running `az account show`
C25_Witness ==
  /\ pc = "execSync"
  /\ child = "az account show -o json"
  /\ queue # <<>>
  /\ Head(queue).method = "OPTIONS"
  /\ response.heads = 0

\* the shell command of each CLI route
CommandOfRoute ==
  [name \in CliRoutes |->
     CASE name = "token" -> "az account get-access-token -o json"
       [] name = "logout" -> "az logout"
       [] name = "login" -> "az login"
       [] name = "user" -> "az account show -o json"]

\* C26: the shell command run for a request is one of four constants,
\* chosen by the first path segment alone: whatever follows the segment in
\* the url and whatever headers the request has, the command of token is
\* "az account get-access-token -o json", of logout "az logout", of login
\* "az login" and of user "az account show -o json"
C26_CommandIsConstantOfRoute ==
  (child # "" \/ pc = "execSync") =>
    \E name \in CliRoutes :
      /\ FirstSegmentIs(request.url, name)
      /\ child = CommandOfRoute[name]

\* /login/x with Origin and requested headers runs `az login`
C26_Witness ==
  /\ pc = "execSync"
  /\ request.url = T(<<"/", "login", "/", "x">>)
  /\ DOMAIN request.headers = {"origin", "access-control-request-headers"}
  /\ request.headers["origin"] = "http://localhost:3000"
  /\ child = "az login"

\* C27: a /token request whose CLI exits with status 1 gets 200 with an
\* empty body and neither Cache-Control nor Expires, whatever the CLI
\* printed before it exited
C27_LoggedOutTokenIsNotCacheable ==
  (TokenRequestDone /\ ExitedWith(1)) =>
    /\ outcome = "returned"
    /\ response.status = 200
    /\ response.body = <<>>
    /\ ~HasHeader("Cache-Control")
    /\ ~HasHeader("Expires")

\* the CLI printed JSON with an expiresOn field and exited with status 1
C27_Witness ==
  /\ TokenRequestDone /\ ExitedWith(1)
  /\ run.stdout = Object1("\"expiresOn\"", <<DateLex(SomeDate)>>)
  /\ response.status = 200
  /\ response.body = <<>>
  /\ ~HasHeader("Expires")

(***************************************************************************)
(* C28.                                                                    *)
(***************************************************************************)
\* the result file exists and holds one JSON text
ValidJson(file) == file # NoFile /\ ~JSONparse(file).throws

ScriptExited == script.pc = "exited"

\* C28: the healer is run at most once, and only after a test run that
\* exited non-zero and left a result file that is valid JSON; a script that
\* found no .spec.ts file, or whose result file is not valid JSON, exits 1
\* without healing; a script whose test passed exits 0 without healing
C28_HealsOnlyFailedRunWithValidJson ==
  /\ script.healed <= 1
  /\ script.healed > 0 =>
       script.exit_code # 0 /\ ValidJson(script.resultfile)
  /\ (ScriptExited /\ (script.testfile = "" \/ ~ValidJson(script.resultfile)))
       => (script.status = 1 /\ script.healed = 0)
  /\ (ScriptExited /\ script.exit_code = 0 /\ ValidJson(script.resultfile))
       => (script.status = 0 /\ script.healed = 0)

(***************************************************************************)
(* C29.                                                                    *)
(***************************************************************************)
Loaded == playwright.pc = "loaded"

Threw == playwright.pc = "threw"

\* the web server list holds the token server entry: port 3001, reused
\* when it already runs
HasTokenServer(cfg) ==
  \E i \in DOMAIN cfg.webServer :
    /\ cfg.webServer[i].command = "yarn --cwd ./../../ start-token-server"
    /\ cfg.webServer[i].port = 3001
    /\ cfg.webServer[i].reuseExistingServer

\* an ENVIRONMENT that is, once trimmed, one of the five names
NamesValidEnvironment(env) ==
  env # undefined /\ trim(env) \in {<<L("prod")>>, <<L("int")>>, <<L("dev")>>,
                                    <<L("local")>>, <<L("canary")>>}

\* the load aborted with the error, and before a configuration was selected
AbortedInvalid ==
  /\ Threw
  /\ playwright.error[1] = L("Invalid environment: ")
  /\ playwright.config = NoConfig

\* C29 as stated: a load ends with a configuration or with the error; an
\* ENVIRONMENT that is unset or names (trimmed) one of prod, int, dev,
\* local, canary ends with a configuration whose web servers hold the token
\* server; every other ENVIRONMENT ends with the error 'Invalid environment'
\* and no configuration
C29_OtherValuesAbort ==
  (Loaded \/ Threw) =>
    IF playwright.ENVIRONMENT = undefined
         \/ NamesValidEnvironment(playwright.ENVIRONMENT)
    THEN Loaded /\ HasTokenServer(playwright.config)
    ELSE AbortedInvalid

\* C29, amended: the empty ENVIRONMENT defaults to local as the unset one
\* does
C29_TokenServerInEveryConfig ==
  (Loaded \/ Threw) =>
    IF Falsy(playwright.ENVIRONMENT)
         \/ NamesValidEnvironment(playwright.ENVIRONMENT)
    THEN /\ Loaded
         /\ HasTokenServer(playwright.config)
         /\ Falsy(playwright.ENVIRONMENT)
              => playwright.environment = <<L("local")>>
    ELSE AbortedInvalid

\* a load in the canary environment, which configMap has no entry for
C29_Witness ==
  /\ Loaded
  /\ playwright.ENVIRONMENT = <<L(" "), L("canary"), L("\t")>>
  /\ Len(playwright.config.webServer) = 2

====
